---- MODULE Spec2Model ----
(***************************************************************************)
(* A model of the dml package (Database Mapping Layer): the column matcher *)
(* BuildMap, the scan executor ScanWithMappedFields with its callers       *)
(* QuickScan / Scan / ScanWithFields / ScanWithMap, the field materializer *)
(* GetFieldsFrom with the descriptor cache, and the sequence grower        *)
(* ScanArray.                                                              *)
(*                                                                         *)
(* Go slices are modelled as TLA+ sequences.  Go indices are 0-based and   *)
(* are kept 0-based wherever the program stores them (ScanMap entries,     *)
(* iln.index, descriptor paths); a sequence is indexed with index + 1.     *)
(***************************************************************************)
EXTENDS Integers, Sequences, FiniteSets, TLC

VARIABLES
    bm,          \* SpecMap: one BuildMap call, its inputs and its results
    into,        \* the caller's target list for QuickScan / Scan / ScanWithMap
    objs,        \* the field values of the objects the targets refer to
    smapIn,      \* the caller-supplied ScanMap of ScanWithMap / ScanWithMappedFields
    src,         \* the row source: its column enumeration and its rows
    arrs,        \* the caller's target sequences for ScanArray
    fieldsCache, \* the descriptor cache: type -> fieldCacheEntry
    call,        \* the call in progress or just returned: its name and results
    log,         \* the row-source operations invoked by the current call, in order
    hooks,       \* the targets whose PostScan hook the current call invoked, in order
    sa,          \* ScanArray's locals between two steps of a call
    procs,       \* SpecCache: the goroutines inside getFieldCachesFor
    lock,        \* fieldsCacheLock: its readers and its writer
    wrap         \* SpecWrap: a scannableWrapper, the source it wraps, the calls made

vars == <<bm, into, objs, smapIn, src, arrs, fieldsCache, call, log, hooks, sa,
          procs, lock, wrap>>

scanVars == <<into, objs, smapIn, src, arrs, fieldsCache, call, log, hooks, sa,
              procs, lock, wrap>>

-----------------------------------------------------------------------------
(* Bounds of the model *)

\* longest freely chosen column list / field-name list of a BuildMap call
MaxLen == 3

\* most targets of one QuickScan / Scan / ScanWithMap call
MaxTargets == 2

\* most target sequences of one ScanArray call
MaxArrs == 2

\* most columns the row source of a scan enumerates
MaxCols == 2

\* most good rows of a row source
MaxRows == 2

\* most receivers a failing Scan fills before it fails
MaxFill == 1

\* most elements a target sequence holds before ScanArray
MaxPre == 1

-----------------------------------------------------------------------------
(* Small helpers *)

Range(s) == {s[i] : i \in 1..Len(s)}

SeqsUpTo(S, n) == UNION {[1..k -> S] : k \in 0..n}

Min(S) == CHOOSE x \in S : \A y \in S : x <= y

\* make([]T, n) filled with v
Fill(n, v) == [i \in 1..n |-> v]

-----------------------------------------------------------------------------
(* intermediate.go: ScanMap, iln, BuildMap *)

\* the discard entry of a ScanMap (intermediate.go:55)
discard == -1

\* BuildMap's strategy cutover (intermediate.go:57)
hashOffset == 5
hashThreshold == 100

\* A ScanMap value: Go distinguishes the nil map from an empty, non-nil one.
NilMap == [isNil |-> TRUE, m |-> <<>>]
MkMap(s) == [isNil |-> FALSE, m |-> s]

\* The result of the column enumeration: an error, the nil list, or a list.
ColErr == [kind |-> "err", names |-> <<>>]
ColNil == [kind |-> "nil", names |-> <<>>]
ColList(s) == [kind |-> "list", names |-> s]

\* *iln: a node id in a heap of nodes; 0 is the nil pointer.
\* heap[id] = [index, next, end]
IlnNil == 0

\* IlnAdd without line 29: the head's end pointer is never advanced
IlnAddStaleEnd(heap, n, i) ==
    IF n = IlnNil
    THEN LET x == Len(heap) + 1
         IN  [heap |-> Append(heap, [index |-> i, next |-> IlnNil, end |-> x]),
              head |-> x]
    ELSE LET x  == Len(heap) + 1
             h1 == Append(heap, [index |-> i, next |-> IlnNil, end |-> IlnNil])
             h2 == [h1 EXCEPT ![h1[n].end].next = x]
         IN  [heap |-> h2, head |-> n]

\* (n *iln) add(i): returns the heap and the new list head
IlnAdd(heap, n, i) ==
    IF n = IlnNil
    THEN LET x == Len(heap) + 1
         IN  [heap |-> Append(heap, [index |-> i, next |-> IlnNil, end |-> x]),
              head |-> x]
    ELSE LET x  == Len(heap) + 1
             h1 == Append(heap, [index |-> i, next |-> IlnNil, end |-> IlnNil])
             h2 == [h1 EXCEPT ![h1[n].end].next = x]
             h3 == [h2 EXCEPT ![n].end = h2[h2[n].end].next]
         IN  [heap |-> h3, head |-> n]

\* (n *iln) yoink(): returns the heap, the *int (isNil / val) and the new head
IlnYoink(heap, n) ==
    IF n = IlnNil
    THEN [heap |-> heap, isNil |-> TRUE, val |-> 0, head |-> IlnNil]
    ELSE LET h1 == IF heap[n].end # n
                   THEN [heap EXCEPT ![heap[n].next].end = heap[n].end]
                   ELSE heap
         IN  [heap |-> h1, isNil |-> FALSE, val |-> h1[n].index, head |-> h1[n].next]

\* columnsByName[name]: a missing key reads as the nil pointer
ByName(cbn, name) == IF name \in DOMAIN cbn THEN cbn[name] ELSE IlnNil

SetByName(cbn, name, head) ==
    [k \in (DOMAIN cbn) \cup {name} |-> IF k = name THEN head ELSE cbn[k]]

\* intermediate.go:59: for i, c := range columns { columnsByName[c] = columnsByName[c].add(i) }
RECURSIVE HashFill(_, _, _, _)

\* r is what add returned for column j
HashFillStep(columns, j, cbn, r) ==
    HashFill(columns, j + 1, r.heap, SetByName(cbn, columns[j], r.head))

HashFill(columns, j, heap, cbn) ==
    IF j > Len(columns) THEN [heap |-> heap, cbn |-> cbn]
    ELSE HashFillStep(columns, j, cbn, IlnAdd(heap, ByName(cbn, columns[j]), j - 1))

\* intermediate.go:60-64: every field name yoinks its next column
RECURSIVE HashDrain(_, _, _, _, _)

\* lines 62-63: r is what yoink returned for field i
HashDrainStep(names, i, cbn, output, r) ==
    HashDrain(names, i + 1, r.heap, SetByName(cbn, names[i], r.head),
              IF r.isNil THEN output ELSE [output EXCEPT ![r.val + 1] = i - 1])

HashDrain(names, i, heap, cbn, output) ==
    IF i > Len(names) THEN output
    ELSE HashDrainStep(names, i, cbn, output, IlnYoink(heap, ByName(cbn, names[i])))

\* the hash-bucketed strategy (intermediate.go:58-64)
BuildMapHash(columns, names) ==
    LET f == HashFill(columns, 1, <<>>, <<>>)
    IN  HashDrain(names, 1, f.heap, f.cbn, Fill(Len(columns), discard))

\* the test of lines 68-70 without the "already claimed" test of line 69
FreeColumnsNoSkip(columns, names, i, output) ==
    {j \in 1..Len(columns) : names[i] = columns[j]}

\* lines 68-70: the columns field i may still claim
FreeColumns(columns, names, i, output) ==
    {j \in 1..Len(columns) : output[j] = discard /\ names[i] = columns[j]}

\* lines 71-72: the leftmost of them is claimed
Claim(output, free, i) ==
    IF free = {} THEN output ELSE [output EXCEPT ![Min(free)] = i - 1]

\* the direct nested scan (intermediate.go:66-78) from field i on
RECURSIVE DirectLoop(_, _, _, _)
DirectLoop(columns, names, i, output) ==
    IF i > Len(names) THEN output
    ELSE DirectLoop(columns, names, i + 1,
                    Claim(output, FreeColumns(columns, names, i, output), i))

BuildMapDirect(columns, names) ==
    DirectLoop(columns, names, 1, Fill(Len(columns), discard))

\* the strategy choice of intermediate.go:57
UseHash(columns, names) ==
    (Len(columns) - hashOffset) * (Len(names) - hashOffset) > hashThreshold

\* BuildMap without the test of line 48: a failed enumeration reads as no list
BuildMapIgnoreErr(colres, names) ==
    IF colres.kind \in {"err", "nil"} THEN [smap |-> NilMap, err |-> "none"]
    ELSE [smap |-> MkMap(BuildMapDirect(colres.names, names)), err |-> "none"]

\* BuildMap with line 52 testing len(columns) == 0 for columns == nil
BuildMapNilOnEmpty(colres, names) ==
    IF colres.kind = "err" THEN [smap |-> NilMap, err |-> "enumeration"]
    ELSE IF Len(colres.names) = 0 THEN [smap |-> NilMap, err |-> "none"]
    ELSE [smap |-> MkMap(BuildMapDirect(colres.names, names)), err |-> "none"]

\* BuildMap(adv, fields): colres is what adv's column enumeration returned
BuildMap(colres, names) ==
    IF colres.kind = "err" THEN [smap |-> NilMap, err |-> "enumeration"]
    ELSE IF colres.kind = "nil" THEN [smap |-> NilMap, err |-> "none"]
    ELSE [smap |-> MkMap(IF UseHash(colres.names, names)
                         THEN BuildMapHash(colres.names, names)
                         ELSE BuildMapDirect(colres.names, names)),
          err |-> "none"]

-----------------------------------------------------------------------------
(* The target types of the model, after the types of everything_test.go *)

\* a field declaration of a structure type
Fld(tag, exported, anonymous, kind, elem) ==
    [tag |-> tag, tagged |-> tag # "", exported |-> exported,
     anonymous |-> anonymous, kind |-> kind, elem |-> elem]

\* E1 { Test string `dml:"a"` }
\* X2 { Field1 string `dml:"a"`; Field2 string `dml:"b"` }
\* X1 { E1; Test1 string `dml:"b"`; private string `dml:"c"`; Inner E1 }
\* Z, X3, X4: X2 with a GetFields method on the pointer receiver
\* P2, P3: X2 with a PostScan method on the pointer receiver
\* E2 { E1; Test string `dml:"d"` }
\* T1 { E1 `dml:"x"`; Field string `dml:"b"` }
\* T2 { Field string `dml:"b"`; E2; hidden string `dml:"c"` }
\* X0: X1 with a NoDefaults and a GetFields method on the pointer receiver
\* Bad: a reflect.Type of kind struct whose Field method panics
TypeFields(t) ==
    CASE t = "E1" -> <<Fld("a", TRUE, FALSE, "string", "")>>
      [] t = "E2" -> <<Fld("", TRUE, TRUE, "struct", "E1"),
                       Fld("d", TRUE, FALSE, "string", "")>>
      [] t = "T1" -> <<Fld("x", TRUE, TRUE, "struct", "E1"),
                       Fld("b", TRUE, FALSE, "string", "")>>
      [] t = "T2" -> <<Fld("b", TRUE, FALSE, "string", ""),
                       Fld("", TRUE, TRUE, "struct", "E2"),
                       Fld("c", FALSE, FALSE, "string", "")>>
      [] t \in {"X1", "X0"} ->
                     <<Fld("", TRUE, TRUE, "struct", "E1"),
                       Fld("b", TRUE, FALSE, "string", ""),
                       Fld("c", FALSE, FALSE, "string", ""),
                       Fld("", TRUE, FALSE, "struct", "E1")>>
      [] t \in {"X2", "Z", "X3", "X4", "P2", "P3"} ->
                     <<Fld("a", TRUE, FALSE, "string", ""),
                       Fld("b", TRUE, FALSE, "string", "")>>
      [] OTHER -> <<>>

StructTypes ==
    {"E1", "E2", "X1", "X2", "Z", "X3", "X4", "P2", "P3", "T1", "T2", "X0", "Bad"}

\* the types whose introspection faults
Faulty(t) == t = "Bad"

\* the types that declare the NoDefaults marker method
NoDefaults(t) == t = "X0"

\* reflect.Kind of a named type
TypeKind(t) == IF t \in StructTypes THEN "struct" ELSE "int"

\* what the type's GetFields method (pointer receiver) returns:
\* Z lists its two fields in reverse, X0 its unexported field, X3 lists
\* nothing, X4 fails
Override(t) ==
    CASE t \in {"Z", "X0"} -> "fields"
      [] t = "X3" -> "empty"
      [] t = "X4" -> "err"
      [] OTHER -> "none"

OverrideNames(t) ==
    CASE t = "Z" -> <<"b", "a">>
      [] t = "X0" -> <<"private">>
      [] OTHER -> <<>>

OverridePaths(t) ==
    CASE t = "Z" -> <<(<<1>>), (<<0>>)>>
      [] t = "X0" -> <<(<<2>>)>>
      [] OTHER -> <<>>

\* the paths of all the non-structure fields of a type, tagged or not
RECURSIVE LeafPaths(_, _)
LeafPaths(t, path) ==
    UNION {IF TypeFields(t)[i].kind = "struct"
           THEN LeafPaths(TypeFields(t)[i].elem, Append(path, i - 1))
           ELSE {Append(path, i - 1)} : i \in 1..Len(TypeFields(t))}

\* the values of the model: <<row, column>> of the row source, both from 1;
\* Zero is the zero value, Old what a caller's object holds before a call
Zero == <<0, 0>>
Old == <<0, 1>>

\* an object of type t, every field holding v
NewObject(t, v) == [p \in LeafPaths(t, <<>>) |-> v]

-----------------------------------------------------------------------------
(* part_000: the descriptor builder and the descriptor cache *)

EmptyEntry == [Names |-> <<>>, Fields |-> <<>>, IsScanner |-> <<>>]

\* fieldCacheEntry.Push
EntryPush(c, name, prefix, value, scanner) ==
    [Names |-> Append(c.Names, name),
     Fields |-> Append(c.Fields, Append(prefix, value)),
     IsScanner |-> Append(c.IsScanner, scanner)]

\* fieldCacheEntry.Append
EntryAppend(c, other) ==
    [Names |-> c.Names \o other.Names,
     Fields |-> c.Fields \o other.Fields,
     IsScanner |-> c.IsScanner \o other.IsScanner]

\* buildFieldCacheEntryForType: the loop of lines 109-118 from field i on
RECURSIVE BuildFrom(_, _, _, _)

\* lines 115-116: the descriptor of an anonymous structure is appended
BuildSub(t, path, i, output, sub) ==
    IF sub.err # "none"
    THEN [entry |-> EmptyEntry, err |-> "error examining field"]
    ELSE BuildFrom(t, path, i + 1, EntryAppend(output, sub.entry))

\* lines 110-117: one declared field
BuildField(t, path, i, output, field) ==
    IF field.exported /\ field.tagged
    THEN BuildFrom(t, path, i + 1,
                   EntryPush(output, field.tag, path, i - 1, field.kind = "scanner"))
    ELSE IF field.anonymous /\ field.kind = "struct"
    THEN BuildSub(t, path, i, output,
                  BuildFrom(field.elem, Append(path, i - 1), 1, EmptyEntry))
    ELSE BuildFrom(t, path, i + 1, output)

BuildFrom(t, path, i, output) ==
    IF i > Len(TypeFields(t)) THEN [entry |-> output, err |-> "none"]
    ELSE BuildField(t, path, i, output, TypeFields(t)[i])

buildFieldCacheEntryForType(t, path) ==
    IF TypeKind(t) # "struct"
    THEN [entry |-> EmptyEntry, err |-> "tried to analyze field structure of non-struct type"]
    ELSE IF Faulty(t)
    THEN [entry |-> EmptyEntry, err |-> "recovered fault"]
    ELSE BuildFrom(t, path, 1, EmptyEntry)

\* t.Implements(getFieldsType) answering false for every type
ImplementsNever(ind, t) == FALSE

\* A reflect.Type: a named type under ind pointer indirections.
\* t.Implements(getFieldsType): only *T has the methods of a pointer receiver.
Implements(ind, t) == ind = 1 /\ Override(t) # "none"

\* the two kinds of NamedFieldsMaker
PassThru == [kind |-> "passthru", entry |-> EmptyEntry]
EntryMaker(e) == [kind |-> "entry", entry |-> e]

\* lines 133-135: the pointer indirections taken off a type
UnwrapType(ty) == [ty EXCEPT !.ind = 0]

\* the identity of a reflect.Type as a key of fieldsCache: *T is not T
RECURSIVE Stars(_)
Stars(n) == IF n = 0 THEN "" ELSE "*" \o Stars(n - 1)

TypeKey(ty) == Stars(ty.ind) \o ty.type

\* getFieldCachesFor without line 152: what it builds is never stored
getFieldCachesForNoStore(ty, cache) ==
    IF Implements(ty.ind, ty.type)
    THEN [maker |-> PassThru, err |-> "none", cache |-> cache]
    ELSE IF TypeKind(ty.type) # "struct"
    THEN [maker |-> EntryMaker(EmptyEntry), err |-> "nested object is not struct",
          cache |-> cache]
    ELSE IF TypeKey(UnwrapType(ty)) \in DOMAIN cache
    THEN [maker |-> EntryMaker(cache[TypeKey(UnwrapType(ty))]), err |-> "none",
          cache |-> cache]
    ELSE LET b == buildFieldCacheEntryForType(ty.type, <<>>)
         IN  IF b.err # "none"
             THEN [maker |-> EntryMaker(EmptyEntry), err |-> b.err, cache |-> cache]
             ELSE [maker |-> EntryMaker(b.entry), err |-> "none", cache |-> cache]

\* getFieldCachesFor(t) on the cache `cache`: the maker, the error and the
\* cache afterwards (one caller at a time)
getFieldCachesFor(ty, cache) ==
    IF Implements(ty.ind, ty.type)
    THEN [maker |-> PassThru, err |-> "none", cache |-> cache]
    ELSE IF TypeKind(ty.type) # "struct"
    THEN [maker |-> EntryMaker(EmptyEntry), err |-> "nested object is not struct",
          cache |-> cache]
    ELSE IF TypeKey(UnwrapType(ty)) \in DOMAIN cache
    THEN [maker |-> EntryMaker(cache[TypeKey(UnwrapType(ty))]), err |-> "none",
          cache |-> cache]
    ELSE LET b == buildFieldCacheEntryForType(ty.type, <<>>)
         IN  IF b.err # "none"
             THEN [maker |-> EntryMaker(EmptyEntry), err |-> b.err, cache |-> cache]
             ELSE [maker |-> EntryMaker(b.entry), err |-> "none",
                   cache |-> [k \in (DOMAIN cache) \cup {TypeKey(UnwrapType(ty))} |->
                                 IF k = TypeKey(UnwrapType(ty)) THEN b.entry
                                 ELSE cache[k]]]

\* GetNamedFieldsMakers: the loop of lines 78-82 from type i on
RECURSIVE MakersFrom(_, _, _, _)

\* lines 79-81: r is what getFieldCachesFor returned for type i
MakersStep(types, i, output, r) ==
    IF r.err # "none" THEN [nfm |-> <<>>, err |-> r.err, cache |-> r.cache]
    ELSE MakersFrom(types, i + 1, Append(output, r.maker), r.cache)

MakersFrom(types, i, output, cache) ==
    IF i > Len(types) THEN [nfm |-> output, err |-> "none", cache |-> cache]
    ELSE MakersStep(types, i, output, getFieldCachesFor(types[i], cache))

GetNamedFieldsMakers(types, cache) == MakersFrom(types, 1, <<>>, cache)

-----------------------------------------------------------------------------
(* part_000: the field materializer *)

\* what a reflect.Value refers to: a caller's target object, the zero object
\* ScanArray allocates for a sequence, or an element of a target sequence
NoRef == [k |-> "none", i |-> 0, e |-> 0]
TgtRef(i) == [k |-> "tgt", i |-> i, e |-> 0]
ZeroRef(i) == [k |-> "zero", i |-> i, e |-> 0]
ElemRef(i, e) == [k |-> "elem", i |-> i, e |-> e]

\* A reflect.Value: a value of named type `type` under `ind` pointer
\* indirections, of which `depth` can be followed before a nil pointer.
InvalidValue ==
    [valid |-> FALSE, ind |-> 0, type |-> "", depth |-> 0, canSet |-> FALSE, ref |-> NoRef]

GoValue(ind, type, depth, ref) ==
    [valid |-> TRUE, ind |-> ind, type |-> type, depth |-> depth, canSet |-> FALSE,
     ref |-> ref]

\* v.Kind()
Kind(v) ==
    IF ~v.valid THEN "invalid" ELSE IF v.ind > 0 THEN "ptr" ELSE TypeKind(v.type)

\* v.Elem() of a pointer: the zero Value for a nil pointer, else the settable pointee
Elem(v) ==
    IF v.depth = 0 THEN InvalidValue
    ELSE [v EXCEPT !.ind = @ - 1, !.depth = @ - 1, !.canSet = TRUE]

\* v.Type()
TypeOf(v) == [ind |-> v.ind, type |-> v.type]

\* reflect.ValueOf(i) for a target of the caller: untyped nil, a structure or
\* number passed by value, or a pointer to one
ValueOfTarget(t, i) ==
    CASE t.shape = "nil" -> InvalidValue
      [] t.shape = "value" -> GoValue(0, t.type, 0, TgtRef(i))
      [] t.shape = "ptr" -> GoValue(1, t.type, 1, TgtRef(i))

\* internalNormalizeObjects, lines 46-59: unwrap until a GetFields implementor,
\* a non-pointer or the invalid Value
RECURSIVE Unwrap(_)
Unwrap(v) ==
    IF Kind(v) = "invalid" THEN [v |-> v, impl |-> FALSE]
    ELSE IF Implements(v.ind, v.type) THEN [v |-> v, impl |-> TRUE]
    ELSE IF Kind(v) = "ptr" THEN Unwrap(Elem(v))
    ELSE [v |-> v, impl |-> FALSE]

\* internalNormalizeObjects: the loop of lines 38-70 from value i on
RECURSIVE NormalizeFrom(_, _, _, _, _)

\* lines 63-69 with `continue Outer` for the return of line 69
NormalizeStepSkip(values, ignoreUnsettable, i, outVals, outTypes, u) ==
    IF u.impl \/ ((ignoreUnsettable \/ u.v.canSet) /\ Kind(u.v) = "struct")
    THEN NormalizeFrom(values, ignoreUnsettable, i + 1,
                       Append(outVals, u.v), Append(outTypes, TypeOf(u.v)))
    ELSE NormalizeFrom(values, ignoreUnsettable, i + 1, outVals, outTypes)

\* lines 47-51 and 63-69: u is value i unwrapped
NormalizeStep(values, ignoreUnsettable, i, outVals, outTypes, u) ==
    IF u.impl \/ ((ignoreUnsettable \/ u.v.canSet) /\ Kind(u.v) = "struct")
    THEN NormalizeFrom(values, ignoreUnsettable, i + 1,
                       Append(outVals, u.v), Append(outTypes, TypeOf(u.v)))
    ELSE [vals |-> <<>>, types |-> <<>>, err |-> "incompatible object type"]

NormalizeFrom(values, ignoreUnsettable, i, outVals, outTypes) ==
    IF i > Len(values) THEN [vals |-> outVals, types |-> outTypes, err |-> "none"]
    ELSE NormalizeStep(values, ignoreUnsettable, i, outVals, outTypes, Unwrap(values[i]))

internalNormalizeObjects(values, ignoreUnsettable) ==
    NormalizeFrom(values, ignoreUnsettable, 1, <<>>, <<>>)

\* a receiver handed to the row source: the address of a field, or a noopScanner
Handle(ref, path) == [noop |-> FALSE, ref |-> ref, path |-> path]
noopScanner == [noop |-> TRUE, ref |-> NoRef, path |-> <<>>]

EmptyFields == [Names |-> <<>>, Fields |-> <<>>]

\* NamedFields.Append with the arguments of the two appends exchanged
FieldsPrepend(n, other) ==
    [Names |-> other.Names \o n.Names, Fields |-> other.Fields \o n.Fields]

\* NamedFields.Append
FieldsAppend(n, other) ==
    [Names |-> n.Names \o other.Names, Fields |-> n.Fields \o other.Fields]

\* fieldCacheEntry.NamedFields(v)
EntryNamedFields(c, v) ==
    [fields |-> [Names |-> c.Names,
                 Fields |-> [i \in 1..Len(c.Names) |-> Handle(v.ref, c.Fields[i])]],
     err |-> "none"]

\* namedFieldsFromGetFields.NamedFields(v): v.Interface().(GetFields)
PassThruNamedFields(v) ==
    IF v.valid /\ Implements(v.ind, v.type)
    THEN IF Override(v.type) = "err"
         THEN [fields |-> EmptyFields, err |-> "error when listing fields"]
         ELSE [fields |-> [Names |-> OverrideNames(v.type),
                           Fields |-> [i \in 1..Len(OverridePaths(v.type)) |->
                                          Handle(v.ref, OverridePaths(v.type)[i])]],
               err |-> "none"]
    ELSE [fields |-> EmptyFields, err |-> "Object does not implement GetFields"]

MakerNamedFields(maker, v) ==
    IF maker.kind = "passthru" THEN PassThruNamedFields(v)
    ELSE EntryNamedFields(maker.entry, v)

\* RenderNamedFields: the loop of lines 89-93 from maker i on
RECURSIVE RenderFrom(_, _, _, _)

\* lines 90-92: r is what maker i returned
RenderStep(nfm, values, i, output, r) ==
    IF r.err # "none" THEN [fields |-> EmptyFields, err |-> r.err]
    ELSE RenderFrom(nfm, values, i + 1, FieldsAppend(output, r.fields))

RenderFrom(nfm, values, i, output) ==
    IF i > Len(nfm) THEN [fields |-> output, err |-> "none"]
    ELSE RenderStep(nfm, values, i, output, MakerNamedFields(nfm[i], values[i]))

RenderNamedFields(nfm, values) ==
    IF Len(nfm) # Len(values)
    THEN [fields |-> EmptyFields, err |-> "incorrect number of parameters"]
    ELSE RenderFrom(nfm, values, 1, EmptyFields)

\* GetFieldsFrom(into...): the fields, the error and the cache afterwards
GetFieldsFrom(values, cache) ==
    LET n == internalNormalizeObjects(values, FALSE)
    IN  IF n.err # "none" THEN [fields |-> EmptyFields, err |-> n.err, cache |-> cache]
        ELSE LET m == GetNamedFieldsMakers(n.types, cache)
             IN  IF m.err # "none"
                 THEN [fields |-> EmptyFields, err |-> m.err, cache |-> m.cache]
                 ELSE LET r == RenderNamedFields(m.nfm, n.vals)
                      IN  [fields |-> r.fields, err |-> r.err, cache |-> m.cache]

\* BuildNamedFields: the loop of intermediate.go:106-112 from target i on
RECURSIVE BuildNamedFieldsFrom(_, _, _, _)

\* intermediate.go:107 and 110-111: g is what GetFieldsFrom returned for target i
BuildNamedFieldsStep(values, i, fields, g) ==
    IF g.err # "none" THEN [fields |-> EmptyFields, err |-> g.err, cache |-> g.cache]
    ELSE BuildNamedFieldsFrom(values, i + 1, FieldsAppend(fields, g.fields), g.cache)

BuildNamedFieldsFrom(values, i, fields, cache) ==
    IF i > Len(values) THEN [fields |-> fields, err |-> "none", cache |-> cache]
    ELSE BuildNamedFieldsStep(values, i, fields, GetFieldsFrom(<<values[i]>>, cache))

\* BuildNamedFields without the test of intermediate.go:104
BuildNamedFieldsNoArity(values, cache) ==
    BuildNamedFieldsFrom(values, 1, EmptyFields, cache)

BuildNamedFields(values, cache) ==
    IF Len(values) = 0
    THEN [fields |-> EmptyFields, err |-> "empty output object list", cache |-> cache]
    ELSE BuildNamedFieldsFrom(values, 1, EmptyFields, cache)

-----------------------------------------------------------------------------
(* The row source: the collaborator behind Scannable / IterableScannable *)

\* The source holds nOK good rows and then ends as `tail` says:
\*   "end"      Next returns false, Err returns nil
\*   "endErr"   Next returns false, Err returns an error
\*   "iterErr"  one more row: Next returns true, Err returns an error
\*   "scanFail" one more row: Next returns true, Scan of it fails after
\*              filling its first `fill` receivers
\* pos is the row the source stands on (0: Next was never called; Scan then
\* reads the first row, as with a single-row source).
Tails == {"end", "endErr", "iterErr", "scanFail"}

CurrentRow(s) == IF s.pos = 0 THEN 1 ELSE s.pos

\* it.Next()
SrcNext(s) ==
    IF s.pos < s.nOK THEN [more |-> TRUE, src |-> [s EXCEPT !.pos = @ + 1]]
    ELSE IF s.pos = s.nOK /\ s.tail = "scanFail"
    THEN [more |-> TRUE, src |-> [s EXCEPT !.pos = @ + 1]]
    ELSE IF s.pos = s.nOK /\ s.tail = "iterErr"
    THEN [more |-> TRUE, src |-> [s EXCEPT !.pos = @ + 1, !.failed = TRUE]]
    ELSE IF s.pos = s.nOK /\ s.tail = "endErr"
    THEN [more |-> FALSE, src |-> [s EXCEPT !.failed = TRUE]]
    ELSE [more |-> FALSE, src |-> s]

\* it.Err()
SrcErr(s) == IF s.failed THEN "iteration" ELSE "none"

\* the memory the receivers point into
WriteHandle(mem, h, val) ==
    IF h.noop THEN mem
    ELSE IF h.ref.k = "tgt" THEN [mem EXCEPT !.objs[h.ref.i][h.path] = val]
    ELSE IF h.ref.k = "elem" THEN [mem EXCEPT !.arrs[h.ref.i].elems[h.ref.e][h.path] = val]
    ELSE mem

RECURSIVE WriteFrom(_, _, _, _, _)
WriteFrom(mem, recv, row, k, n) ==
    IF k > n THEN mem
    ELSE WriteFrom(WriteHandle(mem, recv[k], <<row, k>>), recv, row, k + 1, n)

\* s.Scan(recv...): receiver k is filled with the value of column k of the row
SrcScan(s, recv, mem) ==
    LET row == CurrentRow(s)
        ok  == row <= s.nOK
        n   == IF ok THEN Len(recv) ELSE Min({s.fill, Len(recv)})
    IN  [mem |-> WriteFrom(mem, recv, row, 1, n),
         err |-> IF ok THEN "none" ELSE "scan"]

-----------------------------------------------------------------------------
(* scaninto.go: the scan executor and its callers *)

\* lines 99-109 without the map: the field list as it is
MappedListVerbatim(m, fields) == [list |-> fields.Fields, err |-> "none"]

\* the handle list of lines 99-109; an entry outside the field list faults
MappedList(m, fields) ==
    IF m.isNil THEN [list |-> fields.Fields, err |-> "none"]
    ELSE IF \E k \in 1..Len(m.m) :
                m.m[k] # discard /\ (m.m[k] < 0 \/ m.m[k] >= Len(fields.Fields))
    THEN [list |-> <<>>, err |-> "panic: index out of range"]
    ELSE [list |-> [k \in 1..Len(m.m) |->
                       IF m.m[k] = discard THEN noopScanner
                       ELSE fields.Fields[m.m[k] + 1]],
          err |-> "none"]

\* ScanWithMappedFields scanning once more when the scan has failed
ScanWithMappedFieldsRetry(s, m, fields, mem, lg) ==
    LET l == MappedList(m, fields)
    IN  IF l.err # "none"
        THEN [err |-> l.err, mem |-> mem, log |-> lg, recv |-> <<>>, smap |-> m]
        ELSE IF Len(l.list) = 0
        THEN [err |-> "cannot scan into empty list of fields", mem |-> mem, log |-> lg,
              recv |-> <<>>, smap |-> m]
        ELSE LET r == SrcScan(s, l.list, mem)
             IN  IF r.err = "none"
                 THEN [err |-> r.err, mem |-> r.mem, log |-> Append(lg, "Scan"),
                       recv |-> l.list, smap |-> m]
                 ELSE [err |-> SrcScan(s, l.list, r.mem).err,
                       mem |-> SrcScan(s, l.list, r.mem).mem,
                       log |-> lg \o <<"Scan", "Scan">>, recv |-> l.list, smap |-> m]

\* ScanWithMappedFields enumerating the columns again and using the map it
\* gets from them in place of the map it was given
ScanWithMappedFieldsRemap(s, m, fields, mem, lg) ==
    LET l == MappedList(BuildMap(s.cols, fields.Names).smap, fields)
    IN  IF l.err # "none"
        THEN [err |-> l.err, mem |-> mem, log |-> Append(lg, "ColumnNames"),
              recv |-> <<>>, smap |-> m]
        ELSE IF Len(l.list) = 0
        THEN [err |-> "cannot scan into empty list of fields", mem |-> mem,
              log |-> Append(lg, "ColumnNames"), recv |-> <<>>, smap |-> m]
        ELSE LET r == SrcScan(s, l.list, mem)
             IN  [err |-> r.err, mem |-> r.mem, log |-> lg \o <<"ColumnNames", "Scan">>,
                  recv |-> l.list, smap |-> m]

\* ScanWithMappedFields without the test of line 110
ScanWithMappedFieldsNoCheck(s, m, fields, mem, lg) ==
    LET l == MappedList(m, fields)
    IN  IF l.err # "none"
        THEN [err |-> l.err, mem |-> mem, log |-> lg, recv |-> <<>>, smap |-> m]
        ELSE LET r == SrcScan(s, l.list, mem)
             IN  [err |-> r.err, mem |-> r.mem, log |-> Append(lg, "Scan"),
                  recv |-> l.list, smap |-> m]

\* ScanWithMappedFields(s, m, fields) on memory mem, with lg the operations of
\* the row source invoked so far
ScanWithMappedFields(s, m, fields, mem, lg) ==
    LET l == MappedList(m, fields)
    IN  IF l.err # "none"
        THEN [err |-> l.err, mem |-> mem, log |-> lg, recv |-> <<>>, smap |-> m]
        ELSE IF Len(l.list) = 0
        THEN [err |-> "cannot scan into empty list of fields", mem |-> mem, log |-> lg,
              recv |-> <<>>, smap |-> m]
        ELSE LET r == SrcScan(s, l.list, mem)
             IN  [err |-> r.err, mem |-> r.mem, log |-> Append(lg, "Scan"),
                  recv |-> l.list, smap |-> m]

\* ScanWithFields(adv, fields)
ScanWithFields(s, fields, mem, lg) ==
    LET b == BuildMap(s.cols, fields.Names)
    IN  IF b.err # "none"
        THEN [err |-> b.err, mem |-> mem, log |-> Append(lg, "ColumnNames"),
              recv |-> <<>>, smap |-> b.smap]
        ELSE ScanWithMappedFields(s, b.smap, fields, mem, Append(lg, "ColumnNames"))

\* the PostScan method of a type (pointer receiver): P2's succeeds, P3's fails
Hook(t) ==
    CASE t = "P2" -> "ok"
      [] t = "P3" -> "err"
      [] OTHER -> "none"

\* i.(ScanIntoPostProcessable)
HasHook(t) == t.shape = "ptr" /\ Hook(t.type) # "none"

\* postScan: the loop of intermediate.go:118-122 from target i on
RECURSIVE PostScanFrom(_, _, _)
PostScanFrom(targets, i, called) ==
    IF i > Len(targets) THEN [err |-> "none", hooks |-> called]
    ELSE IF HasHook(targets[i])
    THEN IF Hook(targets[i].type) = "err"
         THEN [err |-> "postscan", hooks |-> Append(called, i)]
         ELSE PostScanFrom(targets, i + 1, Append(called, i))
    ELSE PostScanFrom(targets, i + 1, called)

\* postScan going on after a hook has failed, and returning nil
RECURSIVE PostScanAllFrom(_, _, _)
PostScanAllFrom(targets, i, called) ==
    IF i > Len(targets) THEN [err |-> "none", hooks |-> called]
    ELSE PostScanAllFrom(targets, i + 1,
                         IF HasHook(targets[i]) THEN Append(called, i) ELSE called)

postScanIgnoreErr(targets) == PostScanAllFrom(targets, 1, <<>>)

postScan(targets) == PostScanFrom(targets, 1, <<>>)

-----------------------------------------------------------------------------
(* The calls of the model and their arguments *)

\* the record of a call: the operation, where it stands, the error it
\* returned, the field list it worked on, the map and the handle list it
\* handed to the row source
CallIdle == [op |-> "none", pc |-> "idle", err |-> "none", fields |-> EmptyFields,
             smap |-> NilMap, recv |-> <<>>]

\* ScanArray's locals nfm, smap and rewind, with the target sequences as they
\* were passed (init) and the number of rows scanned so far (done)
SaIdle == [nfm |-> <<>>, smap |-> NilMap, rewind |-> FALSE, init |-> <<>>, done |-> 0]

SrcIdle == [cols |-> ColNil, nOK |-> 0, tail |-> "end", fill |-> 0, pos |-> 0,
            failed |-> FALSE]

\* the targets a caller passes: nil, a structure by value, a pointer to a
\* number, a pointer to a structure
Target(shape, type) == [shape |-> shape, type |-> type]

TargetKinds ==
    {Target("nil", ""), Target("value", "X2"), Target("ptr", "int")}
    \cup {Target("ptr", t) : t \in {"X2", "X1", "Z", "X3", "X4", "P2", "P3"}}

TargetLists == SeqsUpTo(TargetKinds, MaxTargets)

\* the objects behind a target list, as the caller holds them before a call
ObjectsOf(targets) == [i \in 1..Len(targets) |-> NewObject(targets[i].type, Old)]

ValuesOf(targets) == [i \in 1..Len(targets) |-> ValueOfTarget(targets[i], i)]

ColNames == {"a", "b", "x"}

ColResults ==
    {ColErr, ColNil} \cup {ColList(c) : c \in SeqsUpTo(ColNames, MaxCols)}

\* a row source standing on its single row, for the one-row operations
OneRowSources(colres) ==
    {[cols |-> c, nOK |-> n, tail |-> "end", fill |-> f, pos |-> 0, failed |-> FALSE] :
        c \in colres, n \in 0..1, f \in 0..MaxFill}

\* a row source before its first row, for ScanArray
IterSources ==
    {s \in [cols : ColResults, nOK : 0..MaxRows, tail : Tails, fill : 0..MaxFill,
            pos : {0}, failed : {FALSE}] : s.tail = "scanFail" \/ s.fill = 0}

\* the maps a caller passes to ScanWithMap / ScanWithMappedFields
SmapInputs ==
    {NilMap, MkMap(<<>>), MkMap(<<0>>), MkMap(<<discard>>), MkMap(<<1, discard, 0>>)}

\* what a call of a one-row operation leaves behind
Returned(op, err, mem, lg, hk, cache, fields, smap, recv) ==
    /\ call' = [op |-> op, pc |-> "done", err |-> err, fields |-> fields,
                smap |-> smap, recv |-> recv]
    /\ objs' = mem.objs
    /\ log' = lg
    /\ hooks' = hk
    /\ fieldsCache' = cache
    /\ UNCHANGED <<bm, arrs, sa, procs, lock, wrap>>

\* the scan a one-row operation goes on with once it holds its field list
ScanStep(op, s, m, fields, mem) ==
    CASE op = "QuickScan" -> ScanWithMappedFields(s, NilMap, fields, mem, <<>>)
      [] op = "Scan" -> ScanWithFields(s, fields, mem, <<>>)
      [] op = "ScanWithMap" -> ScanWithMappedFields(s, m, fields, mem, <<>>)
      [] op = "ScanWithFields" -> ScanWithFields(s, fields, mem, <<>>)
      [] op = "ScanWithMappedFields" -> ScanWithMappedFields(s, m, fields, mem, <<>>)

\* QuickScan / Scan / ScanWithMap (scaninto.go:54-88) on targets t and row
\* source s; m is the map of ScanWithMap
TopLevelScan(op, t, s, m) ==
    \E mem0 \in {[objs |-> ObjectsOf(t), arrs |-> <<>>]},
       b \in {BuildNamedFields(ValuesOf(t), fieldsCache)} :
        /\ into' = t
        /\ src' = s
        /\ smapIn' = m
        /\ IF b.err # "none"
           THEN Returned(op, b.err, mem0, <<>>, <<>>, b.cache, b.fields, NilMap, <<>>)
           ELSE \E r \in {ScanStep(op, s, m, b.fields, mem0)} :
                  IF r.err # "none"
                  THEN Returned(op, r.err, r.mem, r.log, <<>>, b.cache, b.fields, r.smap,
                                r.recv)
                  ELSE \E ps \in {postScan(t)} :
                         Returned(op, ps.err, r.mem, r.log, ps.hooks, b.cache, b.fields,
                                  r.smap, r.recv)

QuickScanCall ==
    /\ call.pc = "idle"
    /\ \E t \in TargetLists, s \in OneRowSources({ColNil}) :
          TopLevelScan("QuickScan", t, s, NilMap)

ScanCall ==
    /\ call.pc = "idle"
    /\ \E t \in TargetLists, s \in OneRowSources(ColResults) :
          TopLevelScan("Scan", t, s, NilMap)

ScanWithMapCall ==
    /\ call.pc = "idle"
    /\ \E t \in TargetLists, s \in OneRowSources({ColNil}), m \in SmapInputs :
          TopLevelScan("ScanWithMap", t, s, m)

\* ScanWithFields / ScanWithMappedFields called with a field list the caller
\* built from targets t with BuildNamedFields
LowLevelScan(op, t, s, m) ==
    \E mem0 \in {[objs |-> ObjectsOf(t), arrs |-> <<>>]},
       b \in {BuildNamedFields(ValuesOf(t), fieldsCache)} :
        /\ b.err = "none"
        /\ into' = t
        /\ src' = s
        /\ smapIn' = m
        /\ \E r \in {ScanStep(op, s, m, b.fields, mem0)} :
              Returned(op, r.err, r.mem, r.log, <<>>, b.cache, b.fields, r.smap, r.recv)

ScanWithFieldsCall ==
    /\ call.pc = "idle"
    /\ \E t \in TargetLists, s \in OneRowSources(ColResults) :
          LowLevelScan("ScanWithFields", t, s, NilMap)

ScanWithMappedFieldsCall ==
    /\ call.pc = "idle"
    /\ \E t \in TargetLists, s \in OneRowSources({ColNil}), m \in SmapInputs :
          LowLevelScan("ScanWithMappedFields", t, s, m)

-----------------------------------------------------------------------------
(* part_003: the sequence grower ScanArray *)

\* a target of ScanArray: untyped nil ("nil"), a structure by value ("value"),
\* a pointer to something that is no slice ("ptr"), or a pointer to a slice
\* ("ptrslice") whose elements are of named type `type` under `ind` pointer
\* indirections; elems are the elements the slice holds
ArrTarget(shape, ind, type, n) ==
    [shape |-> shape, ind |-> ind, type |-> type,
     elems |-> Fill(n, NewObject(type, Old))]

ArrKinds ==
    {ArrTarget("nil", 0, "", 0), ArrTarget("value", 0, "X2", 0),
     ArrTarget("ptr", 0, "int", 0), ArrTarget("ptrslice", 1, "X2", 0)}
    \cup {ArrTarget("ptrslice", 0, "X2", n) : n \in 0..MaxPre}
    \cup {ArrTarget("ptrslice", 0, t, 0) : t \in {"int", "X1", "Z", "X4", "P2"}}

ArrLists == SeqsUpTo(ArrKinds, MaxArrs)

\* getSlices, lines 15-25: the error it returns
getSlices(targets) ==
    IF \E i \in 1..Len(targets) : targets[i].shape # "ptrslice"
    THEN "elements must be pointers to slice"
    ELSE "none"

\* newValueForSliceContents: the address of a newly allocated element
newValueForSliceContents(a, i) == GoValue(a.ind + 1, a.type, 1, ZeroRef(i))

\* lines 43-47
Zeros(targets) ==
    [i \in 1..Len(targets) |-> newValueForSliceContents(targets[i], i)]

\* lines 71-73: the zero value is appended to every sequence
AppendZeros(as) ==
    [i \in 1..Len(as) |->
        [as[i] EXCEPT !.elems = Append(@, NewObject(as[i].type, Zero))]]

\* renderInto with s.Index(0) for s.Index(s.Len() - 1)
renderIntoFirst(as) ==
    [i \in 1..Len(as) |->
        [GoValue(as[i].ind, as[i].type, 0, ElemRef(i, 1)) EXCEPT !.canSet = TRUE]]

\* renderInto: the last element of every sequence, addressable
renderInto(as) ==
    [i \in 1..Len(as) |->
        [GoValue(as[i].ind, as[i].type, 0, ElemRef(i, Len(as[i].elems)))
            EXCEPT !.canSet = TRUE]]

\* the deferred function without its loop
RewindNone(as) == as

\* the deferred function, lines 64-66: every sequence loses its last element
Rewind(as) ==
    [i \in 1..Len(as) |->
        [as[i] EXCEPT !.elems = SubSeq(@, 1, Len(@) - 1)]]

\* a return of lines 41-59 as if the deferred function were installed first
SaFailRewind(err, a, lg, cache) ==
    /\ call' = [CallIdle EXCEPT !.op = "ScanArray", !.pc = "done", !.err = err]
    /\ sa' = [SaIdle EXCEPT !.init = a]
    /\ arrs' = Rewind(a)
    /\ log' = lg
    /\ fieldsCache' = cache

\* a return of lines 41-59, before the deferred function is installed
SaFail(err, a, lg, cache) ==
    /\ call' = [CallIdle EXCEPT !.op = "ScanArray", !.pc = "done", !.err = err]
    /\ sa' = [SaIdle EXCEPT !.init = a]
    /\ arrs' = a
    /\ log' = lg
    /\ fieldsCache' = cache

\* ScanArray, lines 40-67: up to the loop
ScanArrayCall ==
    /\ call.pc = "idle"
    /\ \E a \in ArrLists, s \in IterSources :
          /\ src' = s
          /\ UNCHANGED <<bm, into, objs, smapIn, hooks, procs, lock, wrap>>
          /\ IF getSlices(a) # "none" THEN SaFail(getSlices(a), a, <<>>, fieldsCache)
             ELSE \E n \in {internalNormalizeObjects(Zeros(a), TRUE)} :
               IF n.err # "none" THEN SaFail(n.err, a, <<>>, fieldsCache)
               ELSE \E m \in {GetNamedFieldsMakers(n.types, fieldsCache)} :
                 IF m.err # "none" THEN SaFail(m.err, a, <<>>, m.cache)
                 ELSE \E r \in {RenderNamedFields(m.nfm, n.vals)} :
                   IF r.err # "none" THEN SaFail(r.err, a, <<>>, m.cache)
                   ELSE \E b \in {BuildMap(s.cols, r.fields.Names)} :
                     IF b.err # "none" THEN SaFail(b.err, a, <<"ColumnNames">>, m.cache)
                     ELSE /\ call' = [CallIdle EXCEPT !.op = "ScanArray", !.pc = "loop",
                                                      !.fields = r.fields,
                                                      !.smap = b.smap]
                          /\ sa' = [nfm |-> m.nfm, smap |-> b.smap, rewind |-> TRUE,
                                    init |-> a, done |-> 0]
                          /\ arrs' = a
                          /\ log' = <<"ColumnNames">>
                          /\ fieldsCache' = m.cache

\* a return of lines 69-86 and the deferred function of lines 62-67
SaLeave(err, as, s, lg, rewind, recv) ==
    /\ arrs' = IF rewind THEN Rewind(as) ELSE as
    /\ sa' = [sa EXCEPT !.rewind = rewind]
    /\ call' = [call EXCEPT !.pc = "done", !.err = err, !.recv = recv]
    /\ src' = s
    /\ log' = lg

\* ScanArray, lines 69-86: the loop test and one pass of the loop body
ScanArrayRow ==
    /\ call.op = "ScanArray"
    /\ call.pc = "loop"
    /\ UNCHANGED <<bm, into, objs, smapIn, hooks, fieldsCache, procs, lock, wrap>>
    /\ \E nx \in {SrcNext(src)} :
         IF ~nx.more
         THEN SaLeave("none", arrs, nx.src, Append(log, "Next"), FALSE, call.recv)
         ELSE \E grown \in {AppendZeros(arrs)}, lg \in {log \o <<"Next", "Err">>} :
           IF SrcErr(nx.src) # "none"
           THEN SaLeave(SrcErr(nx.src), grown, nx.src, lg, TRUE, <<>>)
           ELSE \E r \in {RenderNamedFields(sa.nfm, renderInto(grown))} :
             IF r.err # "none" THEN SaLeave(r.err, grown, nx.src, lg, TRUE, <<>>)
             ELSE \E x \in {ScanWithMappedFields(nx.src, sa.smap, r.fields,
                                                 [objs |-> <<>>, arrs |-> grown], lg)} :
               IF x.err # "none"
               THEN SaLeave(x.err, x.mem.arrs, nx.src, x.log, TRUE, x.recv)
               ELSE /\ arrs' = x.mem.arrs
                    /\ src' = nx.src
                    /\ log' = x.log
                    /\ sa' = [sa EXCEPT !.done = @ + 1]
                    /\ call' = [call EXCEPT !.fields = r.fields, !.recv = x.recv]

-----------------------------------------------------------------------------
(* SpecMap: BuildMap as a function of its inputs *)

MapNames == {"a", "b", "c"}

\* Tails that carry a short list over the cutover of intermediate.go:57:
\* repeated names, and names that only one side has.
PadColumns == <<"a", "p", "b", "a", "q", "c", "p", "a", "r",
                "b", "s", "a", "t", "c", "u", "b">>
PadNames == <<"b", "a", "p", "v", "a", "c", "c", "w", "p",
              "a", "x", "b", "r", "a", "y">>

BmIdle == [pc |-> "none", columns |-> <<>>, names |-> <<>>,
           out |-> <<>>, hash |-> <<>>, direct |-> <<>>, usedHash |-> FALSE]

BmInputs ==
    {[pc |-> "input", columns |-> c \o pc, names |-> n \o pn,
      out |-> <<>>, hash |-> <<>>, direct |-> <<>>, usedHash |-> FALSE] :
        c \in SeqsUpTo(MapNames, MaxLen), n \in SeqsUpTo(MapNames, MaxLen),
        pc \in {<<>>, PadColumns}, pn \in {<<>>, PadNames}}

\* sync.RWMutex, unlocked: the goroutines holding it for reading, and the
\* one holding it for writing (0: nobody)
LockFree == [readers |-> {}, writer |-> 0]

\* the variables of the scan operations before any call
ScanIdle ==
    /\ into = <<>>
    /\ objs = <<>>
    /\ smapIn = NilMap
    /\ src = SrcIdle
    /\ arrs = <<>>
    /\ fieldsCache = <<>>
    /\ call = CallIdle
    /\ log = <<>>
    /\ hooks = <<>>
    /\ sa = SaIdle

\* nobody is inside getFieldCachesFor
CacheIdle == procs = <<>> /\ lock = LockFree

\* the test's FakeRow: a Scannable that keeps the arguments of its last Scan
\* and returns the error it was made with
FakeRow(err) == [err |-> err, scanned |-> <<>>, n |-> 0]

FakeRowScan(f, data) ==
    [row |-> [f EXCEPT !.scanned = data, !.n = @ + 1], ret |-> f.err]

\* WrapBasic: &scannableWrapper{Scannable: inner}, done is the zero value
WrapBasic(inner) == [Scannable |-> inner, done |-> FALSE, calls |-> <<>>]

\* no wrapper is in use
WrapIdle == wrap = WrapBasic(FakeRow("none"))

InitMap == bm \in BmInputs /\ ScanIdle /\ CacheIdle /\ WrapIdle

\* one call of BuildMap on a column list; both strategies are also run on
\* the same input, whatever side of the cutover it falls on
BuildMapCall ==
    /\ bm.pc = "input"
    /\ bm' = [bm EXCEPT !.pc = "done",
                        !.out = BuildMap(ColList(bm.columns), bm.names).smap.m,
                        !.hash = BuildMapHash(bm.columns, bm.names),
                        !.direct = BuildMapDirect(bm.columns, bm.names),
                        !.usedHash = UseHash(bm.columns, bm.names)]
    /\ UNCHANGED scanVars

NextMap == BuildMapCall

SpecMap == InitMap /\ [][NextMap]_vars

-----------------------------------------------------------------------------
(* Spec: the scan operations, one call with freely chosen arguments *)

Init == bm = BmIdle /\ ScanIdle /\ CacheIdle /\ WrapIdle

Next ==
    \/ QuickScanCall
    \/ ScanCall
    \/ ScanWithMapCall
    \/ ScanWithFieldsCall
    \/ ScanWithMappedFieldsCall
    \/ ScanArrayCall
    \/ ScanArrayRow

Spec == Init /\ [][Next]_vars

-----------------------------------------------------------------------------
(* SpecCache: goroutines resolving descriptors concurrently (part_000:125-158) *)

\* the goroutines, and the resolves each of them makes
MaxProcs == 2
MaxResolves == 2

Procs == 1..MaxProcs

\* the reflect.Types resolved: structures, pointers to them, a type with a
\* field-listing override and a non-structure
CacheTypes ==
    {[ind |-> 0, type |-> "X2"], [ind |-> 1, type |-> "X2"], [ind |-> 1, type |-> "X1"],
     [ind |-> 1, type |-> "Z"], [ind |-> 0, type |-> "int"],
     [ind |-> 0, type |-> "T1"], [ind |-> 1, type |-> "T2"],
     [ind |-> 0, type |-> "X0"], [ind |-> 0, type |-> "Bad"]}

\* a goroutine: where it stands in getFieldCachesFor, its argument t, its
\* locals cached and ok, whether it went through lines 150-152, and what its
\* calls have returned so far
ProcIdle == [pc |-> "idle", ty |-> [ind |-> 0, type |-> ""], cached |-> EmptyEntry,
             ok |-> FALSE, built |-> FALSE, results |-> <<>>]

\* fieldsCache[t] = cached, keeping nothing else
CacheStoreOnly(cache, t, entry) == [k \in {t} |-> entry]

\* line 152: fieldsCache[t] = cached
CacheStore(cache, t, entry) ==
    [k \in (DOMAIN cache) \cup {t} |-> IF k = t THEN entry ELSE cache[k]]

\* a return of getFieldCachesFor: how tells the return statement taken
ProcReturn(pr, maker, err, how) ==
    [pr EXCEPT !.pc = "idle", !.built = FALSE,
               !.results = Append(@, [ty |-> pr.ty, maker |-> maker, err |-> err,
                                      how |-> how])]

\* what the goroutines of SpecCache leave alone
cacheRest == <<bm, into, objs, smapIn, src, arrs, call, log, hooks, sa, wrap>>

\* lines 125-140: the call, up to the first use of the lock
Resolve(p) ==
    /\ procs[p].pc = "idle"
    /\ Len(procs[p].results) < MaxResolves
    /\ \E ty \in CacheTypes :
          procs' = [procs EXCEPT ![p] =
              IF Implements(ty.ind, ty.type)
              THEN ProcReturn([@ EXCEPT !.ty = ty], PassThru, "none", "passthru")
              ELSE IF TypeKind(ty.type) # "struct"
              THEN ProcReturn([@ EXCEPT !.ty = ty], EntryMaker(EmptyEntry),
                              "nested object is not struct", "notstruct")
              ELSE [@ EXCEPT !.ty = ty, !.pc = "rlock"]]
    /\ UNCHANGED <<lock, fieldsCache, cacheRest>>

\* line 143: fieldsCacheLock.RLock()
RLock(p) ==
    /\ procs[p].pc = "rlock"
    /\ lock.writer = 0
    /\ lock' = [lock EXCEPT !.readers = @ \cup {p}]
    /\ procs' = [procs EXCEPT ![p].pc = "read"]
    /\ UNCHANGED <<fieldsCache, cacheRest>>

\* a lookup that finds nothing, whatever the cache holds
LookupMiss(pr, next) == [pr EXCEPT !.cached = EmptyEntry, !.ok = FALSE, !.pc = next]

\* lines 144 and 148: cached, ok = fieldsCache[t]
Lookup(pr, next) ==
    IF TypeKey(UnwrapType(pr.ty)) \in DOMAIN fieldsCache
    THEN [pr EXCEPT !.cached = fieldsCache[TypeKey(UnwrapType(pr.ty))], !.ok = TRUE,
                    !.pc = next]
    ELSE [pr EXCEPT !.cached = EmptyEntry, !.ok = FALSE, !.pc = next]

\* line 144
Read(p) ==
    /\ procs[p].pc = "read"
    /\ procs' = [procs EXCEPT ![p] = Lookup(@, "runlock")]
    /\ UNCHANGED <<lock, fieldsCache, cacheRest>>

\* lines 145-146 and, on a hit, line 157
RUnlock(p) ==
    /\ procs[p].pc = "runlock"
    /\ lock' = [lock EXCEPT !.readers = @ \ {p}]
    /\ procs' = [procs EXCEPT ![p] =
                    IF @.ok THEN ProcReturn(@, EntryMaker(@.cached), "none", "hit")
                    ELSE [@ EXCEPT !.pc = "lock"]]
    /\ UNCHANGED <<fieldsCache, cacheRest>>

\* line 147: fieldsCacheLock.Lock()
Lock(p) ==
    /\ procs[p].pc = "lock"
    /\ lock.writer = 0
    /\ lock.readers = {}
    /\ lock' = [lock EXCEPT !.writer = p]
    /\ procs' = [procs EXCEPT ![p].pc = "recheck"]
    /\ UNCHANGED <<fieldsCache, cacheRest>>

\* lines 148-149
Recheck(p) ==
    /\ procs[p].pc = "recheck"
    /\ procs' = [procs EXCEPT ![p] = Lookup(@, "checked")]
    /\ UNCHANGED <<lock, fieldsCache, cacheRest>>

\* lines 149-153: the build and the store of a type still missing; line 151
\* returns with the lock held
Build(p) ==
    /\ procs[p].pc = "checked"
    /\ \E b \in {buildFieldCacheEntryForType(procs[p].ty.type, <<>>)} :
          IF procs[p].ok
          THEN /\ procs' = [procs EXCEPT ![p].pc = "unlock"]
               /\ UNCHANGED fieldsCache
          ELSE IF b.err # "none"
          THEN /\ procs' = [procs EXCEPT ![p] =
                               ProcReturn(@, EntryMaker(EmptyEntry), b.err, "builderr")]
               /\ UNCHANGED fieldsCache
          ELSE /\ procs' = [procs EXCEPT ![p].cached = b.entry, ![p].ok = TRUE,
                                         ![p].built = TRUE, ![p].pc = "unlock"]
               /\ fieldsCache' = CacheStore(fieldsCache, TypeKey(UnwrapType(procs[p].ty)), b.entry)
    /\ UNCHANGED <<lock, cacheRest>>

\* lines 154 and 157
Unlock(p) ==
    /\ procs[p].pc = "unlock"
    /\ lock' = [lock EXCEPT !.writer = 0]
    /\ procs' = [procs EXCEPT ![p] =
                    ProcReturn(@, EntryMaker(@.cached), "none",
                               IF @.built THEN "built" ELSE "recheck")]
    /\ UNCHANGED <<fieldsCache, cacheRest>>

InitCache ==
    /\ bm = BmIdle
    /\ ScanIdle
    /\ procs = [p \in Procs |-> ProcIdle]
    /\ lock = LockFree
    /\ WrapIdle

NextCache ==
    \/ \E p \in Procs : Resolve(p)
    \/ \E p \in Procs : RLock(p)
    \/ \E p \in Procs : Read(p)
    \/ \E p \in Procs : RUnlock(p)
    \/ \E p \in Procs : Lock(p)
    \/ \E p \in Procs : Recheck(p)
    \/ \E p \in Procs : Build(p)
    \/ \E p \in Procs : Unlock(p)

SpecCache == InitCache /\ [][NextCache]_vars

-----------------------------------------------------------------------------
(* SpecWrap: a caller using the result of WrapBasic through the
   IterableScannable interface, in any order of calls *)

MaxCalls == 3
MaxArgs == 2

\* the values a caller hands to Scan
ScanArgs == SeqsUpTo({1, 2}, MaxArgs)

\* the errors the wrapped source was made to return
InnerErrs == {"none", "constError1"}

\* scannableWrapper.Next that leaves done alone
WrapperNextSticky(s) ==
    IF s.done THEN [w |-> s, ret |-> FALSE]
    ELSE [w |-> s, ret |-> TRUE]

\* scannableWrapper.Next
WrapperNext(s) ==
    IF s.done THEN [w |-> s, ret |-> FALSE]
    ELSE [w |-> [s EXCEPT !.done = TRUE], ret |-> TRUE]

\* scannableWrapper.Err
WrapperErr(s) == [w |-> s, ret |-> "none"]

\* scannableWrapper.ColumnNames
WrapperColumnNames(s) == [w |-> s, ret |-> ColNil]

\* scannableWrapper.Scan: the method of the embedded Scannable
WrapperScan(s, data) ==
    [w |-> [s EXCEPT !.Scannable = FakeRowScan(s.Scannable, data).row],
     ret |-> FakeRowScan(s.Scannable, data).ret]

\* a call's result put in the wrapper variable with the record of the call
Called(r, op, data) ==
    /\ Len(wrap.calls) < MaxCalls
    /\ wrap' = [r.w EXCEPT !.calls = Append(@, [op |-> op, data |-> data, ret |-> r.ret])]
    /\ UNCHANGED <<bm, into, objs, smapIn, src, arrs, fieldsCache, call, log,
                   hooks, sa, procs, lock>>

NextCall == \E r \in {WrapperNext(wrap)} : Called(r, "Next", <<>>)

ErrCall == \E r \in {WrapperErr(wrap)} : Called(r, "Err", <<>>)

ColumnNamesCall == \E r \in {WrapperColumnNames(wrap)} : Called(r, "ColumnNames", <<>>)

ScanWrappedCall ==
    \E data \in ScanArgs : \E r \in {WrapperScan(wrap, data)} : Called(r, "Scan", data)

InitWrap ==
    /\ bm = BmIdle
    /\ ScanIdle
    /\ CacheIdle
    /\ \E err \in InnerErrs : wrap = WrapBasic(FakeRow(err))

NextWrap ==
    \/ NextCall
    \/ ErrCall
    \/ ColumnNamesCall
    \/ ScanWrappedCall

SpecWrap == InitWrap /\ [][NextWrap]_vars

-----------------------------------------------------------------------------
(* Claims about the column matcher *)

\* the positions of a name in a list
Occ(list, name) == {i \in 1..Len(list) : list[i] = name}

\* the k-th smallest element of a set of numbers
Kth(S, k) == CHOOSE i \in S : Cardinality({x \in S : x <= i}) = k

\* The reference rule in closed form: the k-th column called c belongs to the
\* k-th field called c, and to nobody when fewer than k fields are called c.
RefEntry(columns, names, j) ==
    LET k == Cardinality({x \in Occ(columns, columns[j]) : x <= j})
        f == Occ(names, columns[j])
    IN  IF Cardinality(f) >= k THEN Kth(f, k) - 1 ELSE discard

\* C3: BuildMap returns a Position Map with one entry per column that equals
\* the reference rule (fields in field order each claim the leftmost unclaimed
\* column of their name; an unclaimed column maps to -1; a field without a
\* column appears nowhere), e.g. [a,a] vs [a,a] gives [0,1], [a] vs [a,a]
\* gives [0,-1].
C3_BuildMapReference ==
    bm.pc = "done" =>
        /\ Len(bm.out) = Len(bm.columns)
        /\ \A j \in 1..Len(bm.columns) :
               bm.out[j] = RefEntry(bm.columns, bm.names, j)
        /\ \A i \in 1..Len(bm.names) :
               bm.names[i] \notin Range(bm.columns) => (i - 1) \notin Range(bm.out)
        /\ (bm.columns = <<"a", "a">> /\ bm.names = <<"a", "a">>) => bm.out = <<0, 1>>
        /\ (bm.columns = <<"a", "a">> /\ bm.names = <<"a">>) => bm.out = <<0, discard>>

\* a call with a repeated column name, one more column than fields of that name
C3_Witness ==
    /\ bm.pc = "done"
    /\ bm.columns = <<"a", "a">>
    /\ bm.names = <<"a">>
    /\ bm.out = <<0, discard>>

\* C4: the hash-bucketed strategy and the direct nested scan return the same
\* Position Map on every input, and BuildMap returns that map on either side
\* of the cutover.
C4_StrategiesAgree ==
    bm.pc = "done" =>
        /\ bm.hash = bm.direct
        /\ bm.out = bm.direct
        /\ bm.out = bm.hash

\* a call that took the hash-bucketed strategy on lists with repeated names,
\* an unclaimed column and a field without a column
C4_Witness ==
    /\ bm.pc = "done"
    /\ bm.usedHash
    /\ bm.out = bm.hash
    /\ \E j \in 1..Len(bm.columns) : bm.out[j] = discard
    /\ \E j1, j2 \in 1..Len(bm.columns) :
          j1 < j2 /\ bm.columns[j1] = bm.columns[j2] /\ bm.out[j1] # discard
                  /\ bm.out[j2] # discard
    /\ \E i \in 1..Len(bm.names) : (i - 1) \notin Range(bm.out)

-----------------------------------------------------------------------------
(* Claims about the sequence grower *)

\* a ScanArray call that has returned
SaDone == call.op = "ScanArray" /\ call.pc = "done"

\* the receivers of a handle list that point at field p of target (or target
\* sequence) i
Receivers(recv, i, p) ==
    {k \in 1..Len(recv) : ~recv[k].noop /\ recv[k].ref.i = i /\ recv[k].path = p}

\* the elements target sequence i has gained
Gained(i) == Len(arrs[i].elems) - Len(sa.init[i].elems)

\* C1: when ScanArray fails inside the per-row loop (error check, rendering
\* or scan of a row) after k rows were scanned, every target sequence holds
\* its initial elements and exactly k more, each of them filled from its own
\* row: the element appended for the failing row is gone.
C1_RollbackOnLoopFailure ==
    (SaDone /\ call.err # "none" /\ "Next" \in Range(log)) =>
        /\ sa.done = src.pos - 1
        /\ Len(arrs) = Len(sa.init)
        /\ \A i \in 1..Len(arrs) :
              /\ Gained(i) = src.pos - 1
              /\ SubSeq(arrs[i].elems, 1, Len(sa.init[i].elems)) = sa.init[i].elems
              /\ \A j \in 1..Gained(i) :
                    \A p \in DOMAIN arrs[i].elems[Len(sa.init[i].elems) + j] :
                        LET v == arrs[i].elems[Len(sa.init[i].elems) + j][p]
                        IN  v = Zero \/ v[1] = j

\* the scan of the second row failed after it had filled a field of the
\* element appended for it; the sequence keeps its old element and the first row's
C1_Witness ==
    /\ SaDone
    /\ call.err = "scan"
    /\ src.pos = 2
    /\ src.fill = 1
    /\ Len(call.recv) > 0
    /\ ~call.recv[1].noop
    /\ Len(arrs) = 2
    /\ Len(sa.init[1].elems) = 1
    /\ Len(arrs[1].elems) = 2

\* C2: when ScanArray succeeds on a source of r rows, every target sequence
\* holds its initial elements unchanged and then exactly r new ones, the j-th
\* filled from the j-th row (a field whose handle went to column k holds the
\* value of column k of row j, every other field the zero value).
C2_SuccessGrowsInLockstep ==
    (SaDone /\ call.err = "none") =>
        /\ sa.done = src.pos
        /\ Len(arrs) = Len(sa.init)
        /\ \A i \in 1..Len(arrs) :
              /\ Gained(i) = src.pos
              /\ SubSeq(arrs[i].elems, 1, Len(sa.init[i].elems)) = sa.init[i].elems
              /\ \A j \in 1..src.pos :
                    \A p \in DOMAIN arrs[i].elems[Len(sa.init[i].elems) + j] :
                        LET v == arrs[i].elems[Len(sa.init[i].elems) + j][p]
                            c == Receivers(call.recv, i, p)
                        IN  IF c = {} THEN v = Zero ELSE \E k \in c : v = <<j, k>>

\* two rows scanned into two sequences, one of which held an element before
C2_Witness ==
    /\ SaDone
    /\ call.err = "none"
    /\ src.pos = 2
    /\ Len(arrs) = 2
    /\ Len(sa.init[1].elems) = 1
    /\ Len(arrs[1].elems) = 3
    /\ Len(arrs[2].elems) = 2
    /\ \E k \in 1..Len(call.recv) : ~call.recv[k].noop /\ call.recv[k].ref.i = 2

-----------------------------------------------------------------------------
(* Claims about the scan executor and its callers *)

\* a one-row operation that has returned
Done(ops) == call.pc = "done" /\ call.op \in ops

emptyList == "cannot scan into empty list of fields"

\* C5: after a successful mapped scan of one row by Scan, ScanWithFields or
\* ScanWithMappedFields, the receiver of a column is the handle of the field
\* that claimed it (a field of the column's name) and that field holds the
\* column's value; a column nobody claimed went to a discard receiver; a
\* field that no receiver points at holds what it held before the call.
C5_MappedScanFrame ==
    (Done({"Scan", "ScanWithFields", "ScanWithMappedFields"})
        /\ call.err = "none" /\ ~call.smap.isNil) =>
        /\ Len(call.recv) = Len(call.smap.m)
        /\ \A k \in 1..Len(call.recv) :
              IF call.smap.m[k] = discard
              THEN call.recv[k] = noopScanner
              ELSE /\ call.recv[k] = call.fields.Fields[call.smap.m[k] + 1]
                   /\ objs[call.recv[k].ref.i][call.recv[k].path] = <<1, k>>
                   /\ src.cols.kind = "list" =>
                          call.fields.Names[call.smap.m[k] + 1] = src.cols.names[k]
        /\ \A i \in 1..Len(objs) :
              \A p \in DOMAIN objs[i] :
                  Receivers(call.recv, i, p) = {} => objs[i][p] = Old

\* Scan of columns [b, x] into one object with fields a and b: b holds the
\* first column, a is untouched, the second column was discarded
C5_Witness ==
    /\ Done({"Scan"})
    /\ call.err = "none"
    /\ src.cols = ColList(<<"b", "x">>)
    /\ into = <<Target("ptr", "X2")>>
    /\ objs[1][<<1>>] = <<1, 1>>
    /\ objs[1][<<0>>] = Old
    /\ call.recv[2] = noopScanner

\* C6: Scan and ScanWithFields work verbatim exactly when the column
\* enumeration succeeds with the nil list: the map is then nil, no error comes
\* from BuildMap and the row source receives the field list's handles as they
\* are; a column list, even an empty one, gives a non-nil map of its length
\* and as many receivers, and an empty one is rejected, not scanned verbatim.
C6_VerbatimIffUnavailable ==
    /\ (Done({"Scan", "ScanWithFields"}) /\ "ColumnNames" \in Range(log)) =>
          /\ src.cols.kind = "err" =>
                call.err = "enumeration" /\ "Scan" \notin Range(log)
          /\ src.cols.kind # "err" => (call.smap.isNil <=> src.cols.kind = "nil")
          /\ src.cols.kind = "nil" =>
                /\ call.smap = NilMap
                /\ call.err # "enumeration"
                /\ "Scan" \in Range(log) => call.recv = call.fields.Fields
          /\ src.cols.kind = "list" =>
                /\ ~call.smap.isNil
                /\ Len(call.smap.m) = Len(src.cols.names)
                /\ "Scan" \in Range(log) => Len(call.recv) = Len(src.cols.names)
                /\ Len(src.cols.names) = 0 =>
                      call.err = emptyList /\ "Scan" \notin Range(log)
    /\ (Done({"QuickScan", "ScanWithMap", "ScanWithMappedFields"})
           /\ call.smap.isNil /\ "Scan" \in Range(log)) =>
          call.recv = call.fields.Fields

\* Scan on a source without column metadata: the two handles of the object
\* went to the row source in field order
C6_Witness ==
    /\ Done({"Scan"})
    /\ src.cols = ColNil
    /\ call.smap = NilMap
    /\ call.err = "none"
    /\ Len(call.fields.Fields) = 2
    /\ call.recv = call.fields.Fields

\* the final handle list of a call is empty: no map and no fields, or a map
\* of length zero
EmptyHandleList ==
    \/ smapIn.isNil /\ Len(call.fields.Fields) = 0
    \/ ~smapIn.isNil /\ Len(smapIn.m) = 0

\* C7: ScanWithMappedFields (called directly, or by QuickScan / ScanWithMap)
\* returns an error and never calls the row source's scan when the final
\* handle list is empty, in verbatim mode with no fields and in mapped mode
\* with a map of length zero; called directly the error is the empty-list one.
C7_EmptyHandleListRejected ==
    /\ (Done({"ScanWithMappedFields", "QuickScan", "ScanWithMap"}) /\ EmptyHandleList) =>
          /\ call.err # "none"
          /\ "Scan" \notin Range(log)
          /\ objs = ObjectsOf(into)
    /\ (Done({"ScanWithMappedFields"}) /\ EmptyHandleList) => call.err = emptyList

\* a direct call in mapped mode: two fields, a map of length zero
C7_Witness ==
    /\ Done({"ScanWithMappedFields"})
    /\ ~smapIn.isNil
    /\ Len(smapIn.m) = 0
    /\ Len(call.fields.Fields) = 2
    /\ call.err = emptyList
    /\ log = <<>>

\* C8: Scan and ScanWithFields do not report success when the field list
\* they work on has no fields, even if the row source enumerates columns.
C8_EmptyFieldListRejected ==
    (Done({"Scan", "ScanWithFields"}) /\ "ColumnNames" \in Range(log)
        /\ Len(call.fields.Fields) = 0
        /\ src.cols.kind = "list" /\ Len(src.cols.names) > 0) =>
        call.err # "none"

\* C9: QuickScan, Scan and ScanWithMap on an empty target list return the
\* "empty output object list" error whatever the row source would do, invoke
\* no operation of the row source and no post-scan hook.
C9_EmptyTargetList ==
    (Done({"QuickScan", "Scan", "ScanWithMap"}) /\ into = <<>>) =>
        /\ call.err = "empty output object list"
        /\ log = <<>>
        /\ hooks = <<>>

\* Scan without targets on a source whose column enumeration would fail
C9_Witness ==
    /\ Done({"Scan"})
    /\ into = <<>>
    /\ src.cols = ColErr
    /\ call.err = "empty output object list"

\* a target that is nil, a structure by value, or a pointer to a non-structure
BadTarget(t) ==
    \/ t.shape \in {"nil", "value"}
    \/ Override(t.type) = "none" /\ TypeKind(t.type) # "struct"

\* the same for a target of ScanArray: no pointer to a slice, or a slice whose
\* zero element does not unwrap to a structure
BadArrTarget(a) ==
    \/ a.shape # "ptrslice"
    \/ Override(a.type) = "none" /\ (TypeKind(a.type) # "struct" \/ a.ind > 0)

\* C10: when a target of QuickScan, Scan, ScanWithMap or ScanArray is nil, a
\* structure by value or does not unwrap to a structure, the call returns an
\* error, no operation of the row source was invoked, no hook ran and no
\* target was modified.
C10_StructuralFailFast ==
    /\ (Done({"QuickScan", "Scan", "ScanWithMap"})
           /\ \E i \in 1..Len(into) : BadTarget(into[i])) =>
          /\ call.err # "none"
          /\ log = <<>>
          /\ hooks = <<>>
          /\ objs = ObjectsOf(into)
    /\ (call.op = "ScanArray" /\ \E i \in 1..Len(sa.init) : BadArrTarget(sa.init[i])) =>
          /\ call.pc = "done"
          /\ call.err # "none"
          /\ log = <<>>
          /\ arrs = sa.init

\* Scan into a good target followed by nil, on a source that would have
\* delivered its row
C10_Witness ==
    /\ Done({"Scan"})
    /\ Len(into) = 2
    /\ into[1] = Target("ptr", "X2")
    /\ into[2] = Target("nil", "")
    /\ src.cols.kind = "list"
    /\ src.nOK = 1
    /\ call.err = "incompatible object type"
    /\ log = <<>>

-----------------------------------------------------------------------------
(* Claims about the descriptor cache and the descriptor builder *)

\* the returns of all goroutines so far
AllResults == UNION {Range(procs[p].results) : p \in Procs}

\* every successful resolve of a type returned the same descriptor, the one
\* the cache holds
ResolvesAgree ==
    \A r1 \in AllResults, r2 \in AllResults :
        (r1.ty.type = r2.ty.type /\ r1.err = "none" /\ r2.err = "none") =>
            /\ r1.maker = r2.maker
            /\ r1.maker.kind = "entry" =>
                  /\ r1.ty.type \in DOMAIN fieldsCache
                  /\ fieldsCache[r1.ty.type] = r1.maker.entry

\* an entry of the cache stays, and stays what it is
EntriesKept ==
    \A t \in DOMAIN fieldsCache :
        t \in DOMAIN fieldsCache' /\ fieldsCache'[t] = fieldsCache[t]

\* C11: under every interleaving of concurrent resolves, all successful
\* resolves of a type return structurally equal descriptors, and an entry of
\* the cache is never replaced by another value and never removed.
C11_CacheStable == [](ResolvesAgree) /\ [][EntriesKept]_vars

\* two goroutines missed the same type at first use: one built the entry, the
\* other found it after taking the write lock, and the cache holds two types
C11_Witness ==
    /\ \E r1 \in Range(procs[1].results), r2 \in Range(procs[2].results) :
          /\ r1.ty.type = r2.ty.type
          /\ r1.how = "built"
          /\ r2.how = "recheck"
          /\ r1.maker = r2.maker
    /\ Cardinality(DOMAIN fieldsCache) = 2

\* the descriptor the tagged fields of a type call for: one entry per
\* exported tagged field, and every anonymous structure expanded where it is
\* declared
RECURSIVE RefDescriptor(_, _, _)
RefDescriptor(t, path, i) ==
    IF i > Len(TypeFields(t)) THEN <<>>
    ELSE LET f == TypeFields(t)[i]
         IN  (IF f.exported /\ f.tagged
              THEN <<[name |-> f.tag, path |-> Append(path, i - 1)]>> ELSE <<>>)
             \o (IF f.anonymous /\ f.kind = "struct"
                 THEN RefDescriptor(f.elem, Append(path, i - 1), 1) ELSE <<>>)
             \o RefDescriptor(t, path, i + 1)

\* C12: the descriptor of a structure type has exactly one entry per exported
\* tagged field reachable through anonymous structures, in declaration order
\* with every anonymous structure expanded depth-first where it is declared;
\* tagged unexported fields and the fields of named nested structures have no
\* entry, and the path of an entry leads to the field tagged with its name.
C12_DescriptorReference ==
    \A t \in DOMAIN fieldsCache :
        LET ref == RefDescriptor(t, <<>>, 1)
        IN  /\ Len(fieldsCache[t].Names) = Len(ref)
            /\ \A k \in 1..Len(ref) :
                  /\ fieldsCache[t].Names[k] = ref[k].name
                  /\ fieldsCache[t].Fields[k] = ref[k].path

-----------------------------------------------------------------------------
(* Claims about the field materializer *)

\* the operations that build their field list from the target list
OneRowOps == {"QuickScan", "Scan", "ScanWithMap", "ScanWithFields", "ScanWithMappedFields"}

\* GetFieldsFrom(t_i) of every target of the call, each on its own
PerTarget == [i \in 1..Len(into) |-> GetFieldsFrom(<<ValueOfTarget(into[i], i)>>, <<>>)]

\* l[1].fields ++ ... ++ l[k].fields
RECURSIVE ConcatFields(_, _)
ConcatFields(l, k) ==
    IF k = 0 THEN EmptyFields
    ELSE [Names |-> ConcatFields(l, k - 1).Names \o l[k].fields.Names,
          Fields |-> ConcatFields(l, k - 1).Fields \o l[k].fields.Fields]

\* the targets whose materialization fails
FailingTargets == {i \in 1..Len(into) : PerTarget[i].err # "none"}

\* C13: the field list BuildNamedFields returns for targets t1..tk is
\* GetFieldsFrom(t1) ++ ... ++ GetFieldsFrom(tk), in target order, the handles
\* of target i pointing into target i; when a target fails, the list is empty
\* and the error is that target's.
C13_FieldsConcatenated ==
    (Done(OneRowOps) /\ into # <<>>) =>
        IF FailingTargets = {}
        THEN /\ call.fields = ConcatFields(PerTarget, Len(into))
             /\ \A k \in 1..Len(call.fields.Fields) :
                   call.fields.Fields[k].ref.k = "tgt"
             /\ \A j, k \in 1..Len(call.fields.Fields) :
                   j <= k => call.fields.Fields[j].ref.i <= call.fields.Fields[k].ref.i
        ELSE /\ call.fields = EmptyFields
             /\ call.err = PerTarget[Min(FailingTargets)].err

\* a structure followed by a target that lists its fields itself, in reverse
C13_Witness ==
    /\ Done({"Scan"})
    /\ into = <<Target("ptr", "X2"), Target("ptr", "Z")>>
    /\ call.fields.Names = <<"a", "b", "b", "a">>
    /\ call.fields.Fields[3] = Handle(TgtRef(2), <<1>>)

\* what the GetFields method of target i returns
OverrideFields(i) ==
    [Names |-> OverrideNames(into[i].type),
     Fields |-> [k \in 1..Len(OverridePaths(into[i].type)) |->
                    Handle(TgtRef(i), OverridePaths(into[i].type)[k])]]

\* target i is a pointer to a type with a GetFields method
HasOverride(i) == into[i].shape = "ptr" /\ Override(into[i].type) # "none"

\* C14: a target with a field-listing override is materialized as exactly the
\* names and handles its override returns; no descriptor for its type is
\* built or put into the cache; an error of the override is returned by
\* QuickScan, Scan and ScanWithMap, which then invoke no operation of the row
\* source and no hook and leave the targets alone.
C14_OverrideBypass ==
    /\ \A t \in DOMAIN fieldsCache : Override(t) = "none"
    /\ Done({"QuickScan", "Scan", "ScanWithMap"}) =>
          /\ \A i \in 1..Len(into) :
                HasOverride(i) =>
                    /\ PerTarget[i].fields =
                          (IF Override(into[i].type) = "err" THEN EmptyFields
                           ELSE OverrideFields(i))
                    /\ PerTarget[i].err =
                          (IF Override(into[i].type) = "err"
                           THEN "error when listing fields" ELSE "none")
          /\ (Len(into) = 1 /\ HasOverride(1) /\ Override(into[1].type) # "err") =>
                call.fields = OverrideFields(1)
          /\ (FailingTargets # {} /\ HasOverride(Min(FailingTargets))) =>
                /\ call.err = "error when listing fields"
                /\ log = <<>>
                /\ hooks = <<>>
                /\ objs = ObjectsOf(into)

\* Scan into a structure and a target whose override fails: the structure's
\* descriptor was cached, the override's error came back, nothing was scanned
C14_Witness ==
    /\ Done({"Scan"})
    /\ into = <<Target("ptr", "X2"), Target("ptr", "X4")>>
    /\ src.nOK = 1
    /\ call.err = "error when listing fields"
    /\ DOMAIN fieldsCache = {"X2"}
    /\ log = <<>>

-----------------------------------------------------------------------------
(* Claims about hooks and errors *)

\* the targets with a hook, and those among them whose hook fails
Hooked == {i \in 1..Len(into) : HasHook(into[i])}
FailingHooks == {i \in Hooked : Hook(into[i].type) = "err"}

\* the hooks a call has to invoke once the row is transferred: all of them,
\* or those up to the first that fails
DueHooks ==
    IF FailingHooks = {} THEN Hooked ELSE {i \in Hooked : i <= Min(FailingHooks)}

\* the row source was asked to scan and delivered the row
Transferred == "Scan" \in Range(log) /\ CurrentRow(src) <= src.nOK

\* C15: QuickScan, Scan and ScanWithMap invoke the hooks of the hook-capable
\* targets once each, in target order, only when the row was transferred, and
\* stop at the first hook that fails, returning its error; when the call
\* fails earlier no hook is invoked; ScanArray invokes no hook.
C15_HookProtocol ==
    /\ Done({"QuickScan", "Scan", "ScanWithMap"}) =>
          /\ \A j, k \in 1..Len(hooks) : j < k => hooks[j] < hooks[k]
          /\ hooks # <<>> => Transferred
          /\ (call.err \notin {"none", "postscan"}) => hooks = <<>>
          /\ call.err \in {"none", "postscan"} =>
                /\ Transferred
                /\ Range(hooks) = DueHooks
                /\ call.err = (IF FailingHooks = {} THEN "none" ELSE "postscan")
    /\ call.op \in {"ScanArray", "ScanWithFields", "ScanWithMappedFields"} => hooks = <<>>

\* the hook of the first target failed: the second target's hook never ran
C15_Witness ==
    /\ Done({"Scan"})
    /\ into = <<Target("ptr", "P3"), Target("ptr", "P2")>>
    /\ Transferred
    /\ hooks = <<1>>
    /\ call.err = "postscan"

\* the calls of the row source's scan a call has made
ScanCalls == {k \in 1..Len(log) : log[k] = "Scan"}

\* C16: a one-row operation calls the row source's scan at most once; when
\* that scan fails, the operation returns the scan's error as it is and does
\* not scan again; ScanWithFields and ScanWithMappedFields return nil when it
\* succeeds.
C16_TransferErrorPassThrough ==
    Done(OneRowOps) =>
        /\ Cardinality(ScanCalls) <= 1
        /\ (ScanCalls # {} /\ CurrentRow(src) > src.nOK) =>
              /\ call.err = "scan"
              /\ hooks = <<>>
              /\ log[Len(log)] = "Scan"
        /\ (ScanCalls # {} /\ CurrentRow(src) <= src.nOK) =>
              call.err = (IF call.op \in {"ScanWithFields", "ScanWithMappedFields"}
                          THEN "none"
                          ELSE IF FailingHooks = {} THEN "none" ELSE "postscan")
        /\ call.err = "scan" => ScanCalls # {}

\* Scan on a row whose transfer fails after its first receiver was filled
C16_Witness ==
    /\ Done({"Scan"})
    /\ into = <<Target("ptr", "X2")>>
    /\ src.cols = ColList(<<"a", "b">>)
    /\ src.nOK = 0
    /\ src.fill = 1
    /\ log = <<"ColumnNames", "Scan">>
    /\ call.err = "scan"
    /\ objs[1][<<0>>] = <<1, 1>>
    /\ objs[1][<<1>>] = Old

\* C17: when the column enumeration of the row source fails, BuildMap gives
\* the nil map and the enumeration's error; Scan, ScanWithFields and ScanArray
\* return that error having invoked the enumeration once and nothing else of
\* the row source, and leave targets and sequences as they were.
C17_EnumerationError ==
    (call.op \in {"Scan", "ScanWithFields", "ScanArray"} /\ src.cols.kind = "err") =>
        /\ call.pc = "done"
        /\ log \in {<<>>, <<"ColumnNames">>}
        /\ hooks = <<>>
        /\ objs = ObjectsOf(into)
        /\ arrs = sa.init
        /\ call.err # "none"
        /\ log = <<"ColumnNames">> =>
              /\ call.err = "enumeration"
              /\ call.smap = NilMap
        /\ (call.op = "Scan" /\ into # <<>> /\ FailingTargets = {}) =>
              log = <<"ColumnNames">>

\* ScanArray on a source with two rows whose column enumeration fails
C17_Witness ==
    /\ SaDone
    /\ src.cols = ColErr
    /\ src.nOK = 2
    /\ src.pos = 0
    /\ Len(arrs) = 1
    /\ arrs[1].type = "X2"
    /\ Len(arrs[1].elems) = 1
    /\ log = <<"ColumnNames">>
    /\ call.err = "enumeration"

\* the positions of the calls of one method in the record of calls
CallsOf(op) == {i \in 1..Len(wrap.calls) : wrap.calls[i].op = op}

\* C18: over any sequence of calls on a WrapBasic wrapper, Next returns
\* true on its first call and false on every later one, whatever Scan calls
\* come before or between; Err returns nil; ColumnNames returns (nil, nil);
\* Scan hands its arguments to the wrapped source and returns its error.
C18_OneRowIterator ==
    /\ \A i \in CallsOf("Next") :
          wrap.calls[i].ret = (\A j \in CallsOf("Next") : j >= i)
    /\ \A i \in CallsOf("Err") : wrap.calls[i].ret = "none"
    /\ \A i \in CallsOf("ColumnNames") : wrap.calls[i].ret = ColNil
    /\ \A i \in CallsOf("Scan") : wrap.calls[i].ret = wrap.Scannable.err
    /\ wrap.Scannable.n = Cardinality(CallsOf("Scan"))
    /\ \A i \in CallsOf("Scan") :
          (\A j \in CallsOf("Scan") : j <= i) =>
              wrap.Scannable.scanned = wrap.calls[i].data
    /\ wrap.done = (CallsOf("Next") # {})

\* Scan before the first Next, then Next twice: true, then false
C18_Witness ==
    /\ Len(wrap.calls) = 3
    /\ wrap.calls[1].op = "Scan"
    /\ wrap.calls[1].data = <<1, 2>>
    /\ wrap.calls[1].ret = "constError1"
    /\ wrap.calls[2].op = "Next"
    /\ wrap.calls[2].ret = TRUE
    /\ wrap.calls[3].op = "Next"
    /\ wrap.calls[3].ret = FALSE

\* C19: ScanArray consults the error check of the row source after each
\* call of advance, whatever advance returned, and whenever the row source
\* has reported an iteration-level error the call ends with that error, not
\* with success.
C19_IterationErrorReported ==
    call.op = "ScanArray" =>
        /\ Cardinality(Occ(log, "Err")) = Cardinality(Occ(log, "Next"))
        /\ (call.pc = "done" /\ src.failed) => call.err = "iteration"

\* C20: ScanWithMap called with a non-empty position map and one target
\* whose field-listing override returns no fields ends with the 'empty list'
\* error: no fault on a map entry past the end of the field list, no scan
\* call on the row source, the target unchanged.
C20_EmptyFieldsWithMap ==
    (/\ Done({"ScanWithMap"})
     /\ into = <<Target("ptr", "X3")>>
     /\ ~smapIn.isNil
     /\ Len(smapIn.m) > 0) =>
        /\ call.err = emptyList
        /\ Occ(log, "Scan") = {}
        /\ objs = ObjectsOf(into)

\* ScanArray has reached its loop
SaLooped == call.op = "ScanArray" /\ (call.pc = "loop" \/ Occ(log, "Next") # {})

\* C21: a ScanArray call that reaches its loop has enumerated the columns
\* exactly once, before the first advance; its map is the one BuildMap gives
\* for those columns and the element types' field names, and the receivers of
\* every row scanned are the handles of that row's elements under that map.
C21_MapOncePerCall ==
    SaLooped =>
        /\ Occ(log, "ColumnNames") = {1}
        /\ sa.smap = call.smap
        /\ sa.smap = BuildMap(src.cols, call.fields.Names).smap
        /\ (sa.done > 0 /\ (call.pc = "loop" \/ call.err = "none")) =>
              /\ call.recv = MappedList(sa.smap, call.fields).list
              /\ Cardinality(Occ(log, "Scan")) = sa.done
              /\ \A k \in 1..Len(call.recv) :
                    ~call.recv[k].noop =>
                        call.recv[k].ref = ElemRef(call.recv[k].ref.i,
                                                   Len(arrs[call.recv[k].ref.i].elems))

\* two rows of columns [b, x] scanned into a sequence of X2: both rows went
\* through the one map [1, discard]
C21_Witness ==
    /\ SaDone
    /\ call.err = "none"
    /\ sa.done = 2
    /\ src.cols = ColList(<<"b", "x">>)
    /\ Len(arrs) = 1
    /\ arrs[1].type = "X2"
    /\ sa.smap = MkMap(<<1, discard>>)
    /\ log = <<"ColumnNames", "Next", "Err", "Scan", "Next", "Err", "Scan", "Next">>

-----------------------------------------------------------------------------
(* Claims about the population of the cache *)

\* the targets BuildNamedFields got to: all of them, or those up to the first
\* whose materialization fails
Attempted ==
    IF FailingTargets = {} THEN 1..Len(into)
    ELSE {i \in 1..Len(into) : i <= Min(FailingTargets)}

\* the types whose descriptor the call had to build: those of the references
\* to structures without an override that were materialized
BuiltTypes ==
    {into[i].type : i \in {j \in Attempted : /\ PerTarget[j].err = "none"
                                              /\ ~HasOverride(j)}}

\* C22: after QuickScan, Scan or ScanWithMap on an empty cache, the cache
\* holds one entry for every structure type of which a reference was
\* materialized, under the name of the structure type itself, and the entry
\* is what the builder gives for that type; a target whose materialization
\* fails adds nothing, so a call whose first target fails leaves the cache
\* empty.
C22_CachePopulation ==
    /\ DOMAIN fieldsCache \subseteq StructTypes
    /\ Done({"QuickScan", "Scan", "ScanWithMap"}) =>
          /\ DOMAIN fieldsCache = BuiltTypes
          /\ \A t \in DOMAIN fieldsCache :
                fieldsCache[t] = buildFieldCacheEntryForType(t, <<>>).entry
          /\ (FailingTargets # {} /\ Min(FailingTargets) = 1) => fieldsCache = <<>>
          /\ (Len(into) = 1 /\ into[1].shape = "ptr" /\ into[1].type \in StructTypes
                /\ Override(into[1].type) = "none") =>
                DOMAIN fieldsCache = {into[1].type}

\* a reference to a structure, then the structure by value: the first adds
\* the entry of X2, the second is rejected and adds nothing
C22_Witness ==
    /\ Done({"Scan"})
    /\ into = <<Target("ptr", "X2"), Target("value", "X2")>>
    /\ PerTarget[2].err # "none"
    /\ call.err = PerTarget[2].err
    /\ DOMAIN fieldsCache = {"X2"}
    /\ fieldsCache["X2"].Names = <<"a", "b">>

-----------------------------------------------------------------------------
(* Claims about ScanArray's targets *)

\* C23: ScanArray called with no target sequence returns an error at once,
\* having invoked nothing of the row source: no column enumeration, no
\* advance, no scan.
C23_NoTargetSequences ==
    (call.op = "ScanArray" /\ sa.init = <<>>) =>
        /\ call.pc = "done"
        /\ call.err # "none"
        /\ log = <<>>
        /\ src.pos = 0

\* C24: no call ends in the failure of the pass-through descriptor: the
\* value it is handed always has the field-listing override, also when
\* ScanArray renders the elements it has just appended to a sequence whose
\* element type has the override on its reference.
C24_PassThruNeverFails ==
    call.err # "Object does not implement GetFields"

-----------------------------------------------------------------------------
(* Claims about the descriptor of a type with the NoDefaults marker *)

\* C25: the descriptor built for a type that declares NoDefaults is empty
\* (no names, no paths, no self-scanning flags) and the build reports no
\* error, whatever tagged fields and anonymous structures the type has.
C25_NoDefaultsEmpty ==
    /\ \A t \in DOMAIN fieldsCache : NoDefaults(t) => fieldsCache[t] = EmptyEntry
    /\ \A r \in AllResults :
          (NoDefaults(r.ty.type) /\ r.ty.ind = 0) =>
              r.err = "none" /\ r.maker = EntryMaker(EmptyEntry)

-----------------------------------------------------------------------------
(* Claims about the lock of the cache *)

\* the runs of the builder for the type of key t whose result was stored:
\* those of the calls that returned, and those of the calls still holding
\* the write lock
Builds(t) ==
    {<<p, i>> \in Procs \X (0..MaxResolves) :
        IF i = 0
        THEN procs[p].built /\ TypeKey(UnwrapType(procs[p].ty)) = t
        ELSE /\ i <= Len(procs[p].results)
             /\ procs[p].results[i].how = "built"
             /\ TypeKey(UnwrapType(procs[p].results[i].ty)) = t}

\* who stands where in getFieldCachesFor
Readers == {p \in Procs : procs[p].pc \in {"read", "runlock"}}
Writers == {p \in Procs : procs[p].pc \in {"recheck", "checked", "unlock"}}

\* the goroutines inside a critical section are the holders of the lock,
\* and a writer is in there alone
Exclusion ==
    /\ Readers \subseteq lock.readers
    /\ Writers \subseteq {lock.writer}
    /\ Writers # {} => Readers = {}

\* a step that changes the cache map is taken by the holder of the write
\* lock, after its re-check missed, and adds one key that was not there
WriteOnce ==
    fieldsCache' # fieldsCache =>
        \E p \in Procs :
            /\ lock.writer = p
            /\ lock.readers = {}
            /\ procs[p].pc = "checked"
            /\ ~procs[p].ok
            /\ TypeKey(UnwrapType(procs[p].ty)) \notin DOMAIN fieldsCache
            /\ DOMAIN fieldsCache' = DOMAIN fieldsCache \cup {TypeKey(UnwrapType(procs[p].ty))}

\* C26: under every interleaving of concurrent resolves, the builder's result
\* is stored at most once per type: a caller that missed under the read lock
\* looks again under the write lock and does not build when the entry is
\* there; the cache map is written only by the holder of the write lock,
\* while nobody else reads or writes it.
C26_SingleBuild ==
    /\ [](/\ Exclusion
          /\ \A t \in StructTypes : Cardinality(Builds(t)) <= 1
          /\ \A p \in Procs :
                (procs[p].pc = "checked" /\ ~procs[p].ok) =>
                    TypeKey(UnwrapType(procs[p].ty)) \notin DOMAIN fieldsCache)
    /\ [][WriteOnce]_vars

\* goroutine 1 has built and stored the entry of X2 and returned; goroutine
\* 2, which had missed X2 under the read lock, holds the write lock and has
\* found the entry in its second lookup
C26_Witness ==
    /\ Builds("X2") = {<<1, 1>>}
    /\ procs[2].pc = "checked"
    /\ procs[2].ok
    /\ procs[2].ty.type = "X2"
    /\ procs[2].cached = fieldsCache["X2"]
    /\ lock.writer = 2

\* C27: a resolve call holds no lock once it has returned, whether it
\* succeeded or the builder reported an error; so a goroutine that waits for
\* the lock waits for a call that is still running, and the cache never
\* deadlocks.
C27_LocksReleased ==
    /\ \A p \in Procs :
          procs[p].pc = "idle" => (lock.writer # p /\ p \notin lock.readers)
    /\ \A p \in Procs :
          (procs[p].pc \in {"rlock", "lock"} /\ lock.writer # 0) =>
              procs[lock.writer].pc # "idle"

\* C28: at every point of a ScanArray call every target sequence holds the
\* elements it held when the call began, unaltered, followed by those the
\* call has appended; a call that fails before its loop leaves every
\* sequence exactly as it was; a call that fails in its loop has taken away
\* one element only, the one appended for the failing row.
C28_SequencesNeverShrink ==
    call.op = "ScanArray" =>
        /\ Len(arrs) = Len(sa.init)
        /\ \A i \in 1..Len(arrs) :
              /\ Gained(i) >= 0
              /\ SubSeq(arrs[i].elems, 1, Len(sa.init[i].elems)) = sa.init[i].elems
              /\ [arrs[i] EXCEPT !.elems = <<>>] = [sa.init[i] EXCEPT !.elems = <<>>]
        /\ (SaDone /\ Occ(log, "Next") = {}) =>
              /\ call.err # "none"
              /\ arrs = sa.init
        /\ (Occ(log, "Next") # {} /\ (call.pc = "loop" \/ call.err # "none")) =>
              \A i \in 1..Len(arrs) : Gained(i) = sa.done

\* a sequence with an element and a second target that is no sequence: the
\* call failed before its loop and the first sequence kept its element
C28_Witness ==
    /\ SaDone
    /\ sa.init = <<ArrTarget("ptrslice", 0, "X2", 1), ArrTarget("ptr", 0, "int", 0)>>
    /\ call.err = "elements must be pointers to slice"
    /\ src.nOK = 2
    /\ Len(arrs[1].elems) = 1
    /\ arrs[1].elems[1] = NewObject("X2", Old)
====
